---- MODULE Spec2Model ----
(***************************************************************************)
(* The RSS 2.0 parser of feedparser-rs-core (parser/rss.rs) as a state     *)
(* machine over the event stream of the XML tokenizer.  One step is one    *)
(* reader.read_event_into call together with everything the function that  *)
(* made the call does with the event, the returns it causes included.      *)
(* An event takes at least one byte of input, so an input of data_len      *)
(* bytes holds at most data_len events before its end.                     *)
(***************************************************************************)
EXTENDS Integers, Sequences, FiniteSets, TLC

\* Length in bytes of the longest input that passes the size check, and so the
\* largest number of events a parsed document holds.
MaxLen == 8

VARIABLES
    limits,     \* the ParserLimits the call was given
    data_len,   \* data.len()
    reader,     \* the quick_xml Reader: open elements, events read, text pending
    doc,        \* what the document read so far contains (description of the input)
    feed,       \* the ParsedFeed under construction
    depth,      \* the depth counter of parse_rss20_with_limits
    stack,      \* the call stack below parse_rss20_with_limits, innermost last
    outcome,    \* "NotStarted", "Running", "Ok" or "Err"
    hist,       \* what has happened during the call (history, read by no code)
    call,       \* the last call of a function of util/ or parser/mod.rs, with its result
    ctxs        \* the BaseUrlContext values alive, one per nested scope, innermost last

vars == <<limits, data_len, reader, doc, feed, depth, stack, outcome, hist,
          call, ctxs>>

\* No function of util/ or parser/mod.rs has been called.
NoCall == [op |-> ""]

----------------------------------------------------------------------------
\* Option<T>

None == <<>>
Some(x) == <<x>>
IsSome(o) == o # <<>>
Unwrap(o) == o[1]

\* Result<T, FeedError>
Ok(v) == [ok |-> TRUE, val |-> v]
Err(e) == [ok |-> FALSE, val |-> e]

\* usize::saturating_sub(1)
SatSub(d) == IF d > 0 THEN d - 1 ELSE 0

Top(s) == s[Len(s)]
Pop(s) == SubSeq(s, 1, Len(s) - 1)
Push(s, f) == Append(s, f)
SetTop(s, f) == [s EXCEPT ![Len(s)] = f]

----------------------------------------------------------------------------
\* Texts and attribute values the tokenizer can deliver.

PlainText == "not a date"
DateText == "Sat, 14 Dec 2024 10:30:00 +0000"
\* The texts an element named ctx can hold.
Texts(ctx) == IF ctx = "pubDate" THEN {PlainText, DateText} ELSE {PlainText}

EnclosureFull == << <<"url", "http://example.com/audio.mp3">>,
                    <<"length", "12345">>,
                    <<"type", "audio/mpeg">> >>
EnclosureNoUrl == << <<"type", "audio/mpeg">> >>
EnclosureEmptyUrl == << <<"url", "">> >>

Attrs(name) ==
    IF name = "enclosure"
    THEN {EnclosureFull, EnclosureNoUrl, EnclosureEmptyUrl}
    ELSE {<<>>}

\* str::parse::<u64>() / ::<u32>() on the values above
ParseInt(s) ==
    CASE s = "12345" -> Some(12345)
      [] s = "60" -> Some(60)
      [] OTHER -> None

----------------------------------------------------------------------------
\* The limits a call can be given.

Limits(entries, nesting) ==
    [max_feed_size_bytes |-> MaxLen,
     max_entries |-> entries,
     max_links_per_feed |-> 1,
     max_links_per_entry |-> 1,
     max_tags |-> 1,
     max_enclosures |-> 1,
     max_nesting_depth |-> nesting,
     max_attribute_length |-> 64]

LimitChoices == {Limits(1, 3), Limits(2, 4)}

\* The input lengths considered: empty, the largest accepted, the smallest rejected.
DataLens == {0, MaxLen, MaxLen + 1}

\* ParserLimits::check_feed_size
check_feed_size(size) ==
    IF size > limits.max_feed_size_bytes
    THEN Err([kind |-> "LimitError", msg |-> "Feed size exceeds maximum"])
    ELSE Ok(<<>>)

\* LimitedCollectionExt::is_at_limit
is_at_limit(v, limit) == Len(v) >= limit

\* LimitedCollectionExt::try_push_limited
try_push_limited(v, item, limit) ==
    IF Len(v) < limit THEN Append(v, item) ELSE v

\* Display of FeedError
to_string(e) == e.kind \o ": " \o e.msg

----------------------------------------------------------------------------
\* The tokenizer.

Event(k, n, t, a) == [kind |-> k, name |-> n, text |-> t, attrs |-> a]

EofEvent == Event("Eof", "", "", <<>>)
\* The error of the tokenizer in the reader r: an end tag </wrong> where the
\* end tag of the open element is expected, or where no element is open.  Its
\* text is the Display of the quick_xml error, with ' for its backquotes.
ErrEvent(r) ==
    Event("Err", "",
          IF r.open # <<>>
          THEN "ill-formed document: expected '</" \o Top(r.open)
               \o ">', but '</wrong>' was found"
          ELSE "ill-formed document: close tag '</wrong>' does not match any open tag",
          <<>>)

ScalarNames == {"title", "link", "pubDate", "category", "url"}

\* The elements a document can hold inside an element named ctx ("" is the
\* document level).
ChildNames(ctx) ==
    CASE ctx = "" -> {"rss"}
      [] ctx = "rss" -> {"channel"}
      [] ctx = "channel" ->
            {"title", "link", "pubDate", "category", "image", "item", "x"}
      [] ctx = "item" ->
            {"title", "link", "pubDate", "category", "enclosure", "source", "x"}
      [] ctx = "image" -> {"url", "x"}
      [] ctx = "source" -> {"title", "url"}
      [] ctx = "x" -> {"x"}
      [] OTHER -> {}

Context(r) == IF r.open = <<>> THEN "" ELSE Top(r.open)

\* Elements that can be written as an empty-element tag in the documents
\* considered (all of them except the two structural ones).
CanBeEmpty(n) == n \notin {"rss", "channel"}

\* The events reader.read_event_into can return next.
NextEvents(r) ==
    IF r.eof \/ r.count >= data_len
    THEN {EofEvent}
    ELSE {EofEvent} \cup
         UNION {{Event("Start", n, "", a) : a \in Attrs(n)} : n \in ChildNames(Context(r))} \cup
         UNION {{Event("Empty", n, "", a) : a \in Attrs(n)} :
                    n \in {c \in ChildNames(Context(r)) : CanBeEmpty(c)}} \cup
         (IF r.open # <<>> THEN {Event("End", Top(r.open), "", <<>>)} ELSE {}) \cup
         (IF r.fresh THEN {Event("Text", "", t, <<>>) : t \in Texts(Context(r))} ELSE {}) \cup
         {ErrEvent(r)}

\* The reader after returning ev.  The error it reports is an end tag that does
\* not match the open element (or any, when none is open): the element that
\* was open is closed by it.
Advance(r, ev) ==
    IF ev.kind = "Eof" THEN [r EXCEPT !.eof = TRUE, !.fresh = FALSE]
    ELSE [eof |-> FALSE,
          open |-> CASE ev.kind = "Start" -> Push(r.open, ev.name)
                     [] ev.kind = "End" -> Pop(r.open)
                     [] ev.kind = "Err" /\ r.open # <<>> -> Pop(r.open)
                     [] OTHER -> r.open,
          count |-> r.count + 1,
          fresh |-> ev.kind = "Start" /\ ev.name \in ScalarNames]

----------------------------------------------------------------------------
\* The records of types/common.rs, types/entry.rs and types/feed.rs.

\* Link { href, rel: Some("alternate"), ..Default::default() }
AlternateLink(href) ==
    [href |-> href, rel |-> Some("alternate"), link_type |-> None,
     title |-> None, length |-> None, hreflang |-> None]

\* Tag { term, scheme: None, label: None }
TagOf(term) == [term |-> term, scheme |-> None, label |-> None]

\* Entry::with_capacity()
Entry_with_capacity ==
    [id |-> None, title |-> None, link |-> None, links |-> <<>>,
     summary |-> None, summary_detail |-> None, published |-> None,
     author |-> None, tags |-> <<>>, enclosures |-> <<>>,
     comments |-> None, source |-> None]

\* FeedMeta::default()
FeedMeta_default ==
    [title |-> None, link |-> None, links |-> <<>>, subtitle |-> None,
     language |-> None, updated |-> None, author |-> None,
     publisher |-> None, generator |-> None, ttl |-> None, tags |-> <<>>,
     image |-> None]

\* ParsedFeed::with_capacity(entry_count)
ParsedFeed_with_capacity(entry_count) ==
    [feed |-> FeedMeta_default, entries |-> <<>>, bozo |-> FALSE,
     bozo_exception |-> None, encoding |-> "utf-8", version |-> "Unknown"]

\* init_feed(version, max_entries)
init_feed(version, max_entries) ==
    [ParsedFeed_with_capacity(max_entries) EXCEPT !.version = version]

\* The feed variable before parse_rss20_with_limits has built one.
NoFeed == [ParsedFeed_with_capacity(0) EXCEPT !.encoding = ""]

\* util::parse_date
parse_date(input) == None

\* Enclosure::from_attributes(attrs, max_attr_length), folded over attrs
RECURSIVE EnclosureFold(_, _, _)
EnclosureFold(attrs, max_attr_length, acc) ==
    IF attrs = <<>> THEN acc
    ELSE LET key == Head(attrs)[1]
             value == Head(attrs)[2]
             next ==
                IF Len(value) > max_attr_length THEN acc
                ELSE CASE key = "url" -> [acc EXCEPT !.url = Some(value)]
                       [] key = "length" -> [acc EXCEPT !.length = ParseInt(value)]
                       [] key = "type" -> [acc EXCEPT !.enclosure_type = Some(value)]
                       [] OTHER -> acc
         IN EnclosureFold(Tail(attrs), max_attr_length, next)

Enclosure_from_attributes(attrs, max_attr_length) ==
    LET acc == EnclosureFold(attrs, max_attr_length,
                   [url |-> None, length |-> None, enclosure_type |-> None])
    IN IF IsSome(acc.url)
       THEN Some([url |-> Unwrap(acc.url), length |-> acc.length,
                  enclosure_type |-> acc.enclosure_type])
       ELSE None

\* parse_enclosure(e, limits)
parse_enclosure(e) == Enclosure_from_attributes(e.attrs, limits.max_attribute_length)

----------------------------------------------------------------------------
\* Errors.

\* FeedError::InvalidFormat(format!("XML nesting depth {} exceeds maximum {}", ..))
DepthError(d) ==
    [kind |-> "InvalidFormat",
     msg |-> "XML nesting depth " \o ToString(d) \o " exceeds maximum "
             \o ToString(limits.max_nesting_depth)]

\* e.into() of the tokenizer error the event ev reports
XmlError(ev) == [kind |-> "XmlError", msg |-> ev.text]

\* FeedError::InvalidFormat("Image missing url")
ImageMissingUrl == [kind |-> "InvalidFormat", msg |-> "Image missing url"]

SetBozo(f, text) == [f EXCEPT !.bozo = TRUE, !.bozo_exception = Some(text)]

----------------------------------------------------------------------------
\* Stack frames: one per active call, with the call's locals.  site names the
\* match arm of the caller that made the call.

ChannelFrame == [fn |-> "parse_channel"]
ItemFrame == [fn |-> "parse_item", entry |-> Entry_with_capacity]
ImageFrame ==
    [fn |-> "parse_image", url |-> "", title |-> None, link |-> None,
     width |-> None, height |-> None, description |-> None]
SourceFrame == [fn |-> "parse_source", title |-> None, link |-> None]
ReadTextFrame(site) == [fn |-> "read_text", site |-> site, text |-> ""]
SkipFrame(site) == [fn |-> "skip_element", site |-> site, local_depth |-> 1]

\* The machine state the parsing functions work on.
Cur == [feed |-> feed, depth |-> depth, stack |-> stack, outcome |-> outcome]

Fn == IF stack = <<>> THEN "" ELSE Top(stack).fn

----------------------------------------------------------------------------
\* AfterChannel with the flag set and the description left out.
AfterChannel_FlagOnly(m, r) ==
    LET f == IF r.ok THEN m.feed ELSE [m.feed EXCEPT !.bozo = TRUE]
    IN [m EXCEPT !.feed = f, !.depth = SatSub(m.depth)]

\* AfterChannel with the flag cleared when parse_channel returns Ok.
AfterChannel_ClearOnOk(m, r) ==
    LET f == IF r.ok THEN [m.feed EXCEPT !.bozo = FALSE, !.bozo_exception = None]
             ELSE SetBozo(m.feed, to_string(r.val))
    IN [m EXCEPT !.feed = f, !.depth = SatSub(m.depth)]

\* parse_rss20_with_limits: what follows the return of parse_channel
\* (the stack is back to the top level).
AfterChannel(m, r) ==
    LET f == IF r.ok THEN m.feed ELSE SetBozo(m.feed, to_string(r.val))
    IN [m EXCEPT !.feed = f, !.depth = SatSub(m.depth)]

\* parse_channel returns r.
ChannelReturn(m, r) == AfterChannel([m EXCEPT !.stack = Pop(m.stack)], r)

\* ChannelLink with a plain push in place of the limited one.
ChannelLink_Unlimited(f, link_text) ==
    [f EXCEPT !.feed.link = Some(link_text),
              !.feed.links = Append(@, AlternateLink(link_text))]

\* parse_channel: the arm of <link>, given its text.
ChannelLink(f, link_text) ==
    [f EXCEPT !.feed.link = Some(link_text),
              !.feed.links = try_push_limited(@, AlternateLink(link_text),
                                              limits.max_links_per_feed)]

\* parse_channel: the arm of <pubDate>, given its text.
ChannelPubDate(f, text) ==
    IF IsSome(parse_date(text))
    THEN [f EXCEPT !.feed.updated = parse_date(text)]
    ELSE IF text # "" THEN SetBozo(f, "Invalid pubDate format")
    ELSE f

\* parse_channel: the arm of <category>, given its text.
ChannelCategory(f, term) ==
    [f EXCEPT !.feed.tags = try_push_limited(@, TagOf(term), limits.max_tags)]

\* parse_channel: the arm of a child element whose text was read.
ChannelText(f, name, text) ==
    CASE name = "title" -> [f EXCEPT !.feed.title = Some(text)]
      [] name = "link" -> ChannelLink(f, text)
      [] name = "description" -> [f EXCEPT !.feed.subtitle = Some(text)]
      [] name = "language" -> [f EXCEPT !.feed.language = Some(text)]
      [] name = "pubDate" -> ChannelPubDate(f, text)
      [] name = "managingEditor" -> [f EXCEPT !.feed.author = Some(text)]
      [] name = "webMaster" -> [f EXCEPT !.feed.publisher = Some(text)]
      [] name = "generator" -> [f EXCEPT !.feed.generator = Some(text)]
      [] name = "ttl" -> [f EXCEPT !.feed.ttl = ParseInt(text)]
      [] name = "category" -> ChannelCategory(f, text)

ChannelTextNames ==
    {"title", "link", "description", "language", "pubDate", "managingEditor",
     "webMaster", "generator", "ttl", "category"}

\* parse_channel: what follows the return r of the call made for the child
\* element site (the stack is back to parse_channel).
AfterChannelChild(m, site, r) ==
    CASE site \in ChannelTextNames ->
            IF r.ok
            THEN [m EXCEPT !.feed = ChannelText(m.feed, site, r.val),
                           !.depth = SatSub(m.depth)]
            ELSE ChannelReturn(m, r)
      [] site = "image" ->
            [m EXCEPT !.feed = IF r.ok THEN [m.feed EXCEPT !.feed.image = Some(r.val)]
                               ELSE m.feed,
                      !.depth = SatSub(m.depth)]
      [] site = "item" ->
            [m EXCEPT !.feed = IF r.ok
                               THEN [m.feed EXCEPT !.entries = Append(@, r.val)]
                               ELSE SetBozo(m.feed, to_string(r.val)),
                      !.depth = SatSub(m.depth)]
      [] site \in {"item_limit", "other"} ->
            IF r.ok THEN [m EXCEPT !.depth = SatSub(m.depth)]
            ELSE ChannelReturn(m, r)

\* parse_channel: the match on the name of a child element, after the depth check.
ChannelChild(m, e) ==
    CASE e.name \in ChannelTextNames ->
            [m EXCEPT !.stack = Push(@, ReadTextFrame(e.name))]
      [] e.name = "image" -> [m EXCEPT !.stack = Push(@, ImageFrame)]
      [] e.name = "item" ->
            IF is_at_limit(m.feed.entries, limits.max_entries)
            THEN [m EXCEPT !.feed = SetBozo(@, "Entry limit exceeded: "
                                               \o ToString(limits.max_entries)),
                           !.stack = Push(@, SkipFrame("item_limit"))]
            ELSE [m EXCEPT !.stack = Push(@, ItemFrame)]
      [] OTHER -> [m EXCEPT !.stack = Push(@, SkipFrame("other"))]

\* ParseChannelEvent with the end of input ignored.
ParseChannelEvent_NoEof(m, ev) ==
    CASE ev.kind \in {"Start", "Empty"} ->
            IF m.depth + 1 > limits.max_nesting_depth
            THEN ChannelReturn([m EXCEPT !.depth = m.depth + 1],
                               Err(DepthError(m.depth + 1)))
            ELSE ChannelChild([m EXCEPT !.depth = m.depth + 1], ev)
      [] ev.kind = "End" /\ ev.name = "channel" -> ChannelReturn(m, Ok(<<>>))
      [] ev.kind = "Err" -> ChannelReturn(m, Err(XmlError(ev)))
      [] OTHER -> m

\* parse_channel: one turn of its loop on the event ev.
ParseChannelEvent(m, ev) ==
    CASE ev.kind \in {"Start", "Empty"} ->
            IF m.depth + 1 > limits.max_nesting_depth
            THEN ChannelReturn([m EXCEPT !.depth = m.depth + 1],
                               Err(DepthError(m.depth + 1)))
            ELSE ChannelChild([m EXCEPT !.depth = m.depth + 1], ev)
      [] ev.kind = "End" /\ ev.name = "channel" -> ChannelReturn(m, Ok(<<>>))
      [] ev.kind = "Eof" -> ChannelReturn(m, Ok(<<>>))
      [] ev.kind = "Err" -> ChannelReturn(m, Err(XmlError(ev)))
      [] OTHER -> m

----------------------------------------------------------------------------
\* parse_item returns r to parse_channel.
ItemReturn(m, r) == AfterChannelChild([m EXCEPT !.stack = Pop(m.stack)], "item", r)

\* parse_item: the arm of <link>, given its text.
ItemLink(entry, link_text) ==
    [entry EXCEPT !.link = Some(link_text),
                  !.links = try_push_limited(@, AlternateLink(link_text),
                                             limits.max_links_per_entry)]

\* parse_item: the arm of <pubDate>, given its text.
ItemPubDate(entry, text) == [entry EXCEPT !.published = parse_date(text)]

\* parse_item: the arm of <category>, given its text.
ItemCategory(entry, term) ==
    [entry EXCEPT !.tags = try_push_limited(@, TagOf(term), limits.max_tags)]

\* parse_item: the arm of <enclosure>, before the element is skipped.
ItemEnclosure(entry, e) ==
    IF IsSome(parse_enclosure(e))
    THEN [entry EXCEPT !.enclosures =
              try_push_limited(@, Unwrap(parse_enclosure(e)), limits.max_enclosures)]
    ELSE entry

\* parse_item: the arm of a child element whose text was read.
ItemText(entry, name, text) ==
    CASE name = "title" -> [entry EXCEPT !.title = Some(text)]
      [] name = "link" -> ItemLink(entry, text)
      [] name = "description" ->
            [entry EXCEPT !.summary = Some(text),
                          !.summary_detail =
                              Some([value |-> text, content_type |-> "Html",
                                    language |-> None, base |-> None])]
      [] name = "guid" -> [entry EXCEPT !.id = Some(text)]
      [] name = "pubDate" -> ItemPubDate(entry, text)
      [] name = "author" -> [entry EXCEPT !.author = Some(text)]
      [] name = "category" -> ItemCategory(entry, text)
      [] name = "comments" -> [entry EXCEPT !.comments = Some(text)]

ItemTextNames ==
    {"title", "link", "description", "guid", "pubDate", "author", "category",
     "comments"}

\* parse_item: what follows the return r of the call made for the child
\* element site (the stack is back to parse_item).
AfterItemChild(m, site, r) ==
    LET fr == Top(m.stack) IN
    CASE site \in ItemTextNames ->
            IF r.ok
            THEN [m EXCEPT !.stack = SetTop(@, [fr EXCEPT !.entry =
                                                   ItemText(fr.entry, site, r.val)]),
                           !.depth = SatSub(m.depth)]
            ELSE ItemReturn(m, r)
      [] site = "source" ->
            [m EXCEPT !.stack = IF r.ok
                                THEN SetTop(@, [fr EXCEPT !.entry.source = Some(r.val)])
                                ELSE @,
                      !.depth = SatSub(m.depth)]
      [] site \in {"enclosure", "other"} ->
            IF r.ok THEN [m EXCEPT !.depth = SatSub(m.depth)]
            ELSE ItemReturn(m, r)

\* parse_item: the match on the name of a child element, after the depth check.
ItemChild(m, e) ==
    LET fr == Top(m.stack) IN
    CASE e.name \in ItemTextNames ->
            [m EXCEPT !.stack = Push(@, ReadTextFrame(e.name))]
      [] e.name = "enclosure" ->
            [m EXCEPT !.stack = Push(SetTop(@, [fr EXCEPT !.entry =
                                                    ItemEnclosure(fr.entry, e)]),
                                     SkipFrame("enclosure"))]
      [] e.name = "source" -> [m EXCEPT !.stack = Push(@, SourceFrame)]
      [] OTHER -> [m EXCEPT !.stack = Push(@, SkipFrame("other"))]

\* parse_item: one turn of its loop on the event ev.
ParseItemEvent(m, ev) ==
    CASE ev.kind \in {"Start", "Empty"} ->
            IF m.depth + 1 > limits.max_nesting_depth
            THEN ItemReturn([m EXCEPT !.depth = m.depth + 1],
                            Err(DepthError(m.depth + 1)))
            ELSE ItemChild([m EXCEPT !.depth = m.depth + 1], ev)
      [] ev.kind = "End" /\ ev.name = "item" -> ItemReturn(m, Ok(Top(m.stack).entry))
      [] ev.kind = "Eof" -> ItemReturn(m, Ok(Top(m.stack).entry))
      [] ev.kind = "Err" -> ItemReturn(m, Err(XmlError(ev)))
      [] OTHER -> m

----------------------------------------------------------------------------
\* parse_image returns r to parse_channel.
ImageReturn(m, r) == AfterChannelChild([m EXCEPT !.stack = Pop(m.stack)], "image", r)

\* parse_image: the end of its loop: the url check and the Image built.
ImageFinish(m) ==
    LET fr == Top(m.stack) IN
    IF fr.url = ""
    THEN ImageReturn(m, Err(ImageMissingUrl))
    ELSE ImageReturn(m, Ok([url |-> fr.url, title |-> fr.title, link |-> fr.link,
                            width |-> fr.width, height |-> fr.height,
                            description |-> fr.description]))

ImageTextNames == {"url", "title", "link", "width", "height", "description"}

\* parse_image: the arm of a child element whose text was read.
ImageText(fr, name, text) ==
    CASE name = "url" -> [fr EXCEPT !.url = text]
      [] name = "title" -> [fr EXCEPT !.title = Some(text)]
      [] name = "link" -> [fr EXCEPT !.link = Some(text)]
      [] name = "width" ->
            IF IsSome(ParseInt(text)) THEN [fr EXCEPT !.width = ParseInt(text)] ELSE fr
      [] name = "height" ->
            IF IsSome(ParseInt(text)) THEN [fr EXCEPT !.height = ParseInt(text)] ELSE fr
      [] name = "description" -> [fr EXCEPT !.description = Some(text)]

\* parse_image: what follows the return r of the call made for a child.
AfterImageChild(m, site, r) ==
    IF ~r.ok THEN ImageReturn(m, r)
    ELSE IF site \in ImageTextNames
    THEN [m EXCEPT !.stack = SetTop(@, ImageText(Top(m.stack), site, r.val)),
                   !.depth = SatSub(m.depth)]
    ELSE [m EXCEPT !.depth = SatSub(m.depth)]

\* parse_image: one turn of its loop on the event ev.
ParseImageEvent(m, ev) ==
    CASE ev.kind = "Start" ->
            IF m.depth + 1 > limits.max_nesting_depth
            THEN ImageReturn([m EXCEPT !.depth = m.depth + 1],
                             Err(DepthError(m.depth + 1)))
            ELSE IF ev.name \in ImageTextNames
            THEN [m EXCEPT !.depth = m.depth + 1,
                           !.stack = Push(@, ReadTextFrame(ev.name))]
            ELSE [m EXCEPT !.depth = m.depth + 1,
                           !.stack = Push(@, SkipFrame("other"))]
      [] ev.kind = "End" /\ ev.name = "image" -> ImageFinish(m)
      [] ev.kind = "Eof" -> ImageFinish(m)
      [] ev.kind = "Err" -> ImageReturn(m, Err(XmlError(ev)))
      [] OTHER -> m

----------------------------------------------------------------------------
\* parse_source returns r to parse_item.
SourceReturn(m, r) == AfterItemChild([m EXCEPT !.stack = Pop(m.stack)], "source", r)

SourceFinish(m) ==
    SourceReturn(m, Ok([title |-> Top(m.stack).title, link |-> Top(m.stack).link,
                        id |-> None]))

\* parse_source: what follows the return r of the call made for a child.
AfterSourceChild(m, site, r) ==
    LET fr == Top(m.stack) IN
    IF ~r.ok THEN SourceReturn(m, r)
    ELSE CASE site = "title" ->
                [m EXCEPT !.stack = SetTop(@, [fr EXCEPT !.title = Some(r.val)]),
                          !.depth = SatSub(m.depth)]
           [] site = "url" ->
                [m EXCEPT !.stack = SetTop(@, [fr EXCEPT !.link = Some(r.val)]),
                          !.depth = SatSub(m.depth)]
           [] OTHER -> [m EXCEPT !.depth = SatSub(m.depth)]

\* parse_source: one turn of its loop on the event ev.
ParseSourceEvent(m, ev) ==
    CASE ev.kind = "Start" ->
            IF m.depth + 1 > limits.max_nesting_depth
            THEN SourceReturn([m EXCEPT !.depth = m.depth + 1],
                              Err(DepthError(m.depth + 1)))
            ELSE IF ev.name \in {"title", "url"}
            THEN [m EXCEPT !.depth = m.depth + 1,
                           !.stack = Push(@, ReadTextFrame(ev.name))]
            ELSE [m EXCEPT !.depth = m.depth + 1,
                           !.stack = Push(@, SkipFrame("other"))]
      [] ev.kind = "End" /\ ev.name = "source" -> SourceFinish(m)
      [] ev.kind = "Eof" -> SourceFinish(m)
      [] ev.kind = "Err" -> SourceReturn(m, Err(XmlError(ev)))
      [] OTHER -> m

----------------------------------------------------------------------------
\* read_text and skip_element return r to the function that called them.
HelperReturn(m, r) ==
    LET site == Top(m.stack).site
        back == [m EXCEPT !.stack = Pop(m.stack)]
        caller == Top(back.stack).fn
    IN CASE caller = "parse_channel" -> AfterChannelChild(back, site, r)
         [] caller = "parse_item" -> AfterItemChild(back, site, r)
         [] caller = "parse_image" -> AfterImageChild(back, site, r)
         [] caller = "parse_source" -> AfterSourceChild(back, site, r)

\* read_text: one turn of its loop on the event ev.
ReadTextEvent(m, ev) ==
    CASE ev.kind = "Text" ->
            [m EXCEPT !.stack = SetTop(@, [Top(m.stack) EXCEPT !.text = @ \o ev.text])]
      [] ev.kind \in {"End", "Eof"} -> HelperReturn(m, Ok(Top(m.stack).text))
      [] ev.kind = "Err" -> HelperReturn(m, Err(XmlError(ev)))
      [] OTHER -> m

\* skip_element: one turn of its loop on the event ev.
SkipElementEvent(m, ev) ==
    LET fr == Top(m.stack) IN
    CASE ev.kind = "Start" ->
            IF m.depth + 1 > limits.max_nesting_depth
            THEN HelperReturn([m EXCEPT !.depth = m.depth + 1],
                              Err(DepthError(m.depth + 1)))
            ELSE [m EXCEPT !.depth = m.depth + 1,
                           !.stack = SetTop(@, [fr EXCEPT !.local_depth = @ + 1])]
      [] ev.kind = "End" ->
            IF fr.local_depth = 1
            THEN HelperReturn(m, Ok(<<>>))
            ELSE [m EXCEPT !.depth = SatSub(m.depth),
                           !.stack = SetTop(@, [fr EXCEPT !.local_depth = @ - 1])]
      [] ev.kind = "Eof" -> HelperReturn(m, Ok(<<>>))
      [] ev.kind = "Err" -> HelperReturn(m, Err(XmlError(ev)))
      [] OTHER -> m

----------------------------------------------------------------------------
\* TopLevelEvent with the tokenizer error returned to the caller.
TopLevelEvent_ErrFatal(m, ev) ==
    CASE ev.kind = "Start" /\ ev.name = "channel" ->
            [m EXCEPT !.depth = m.depth + 1, !.stack = Push(@, ChannelFrame)]
      [] ev.kind = "Eof" -> [m EXCEPT !.outcome = "Ok"]
      [] ev.kind = "Err" -> [m EXCEPT !.outcome = "Err"]
      [] OTHER -> m

\* parse_rss20_with_limits: one turn of its loop on the event ev.
TopLevelEvent(m, ev) ==
    CASE ev.kind = "Start" /\ ev.name = "channel" ->
            [m EXCEPT !.depth = m.depth + 1, !.stack = Push(@, ChannelFrame)]
      [] ev.kind = "Eof" -> [m EXCEPT !.outcome = "Ok"]
      [] ev.kind = "Err" ->
            [m EXCEPT !.feed = SetBozo(@, "XML parsing error: " \o ev.text),
                      !.outcome = "Ok"]
      [] OTHER -> m

----------------------------------------------------------------------------
\* parse_rss20_with_limits up to its loop: the size check and the new feed.
ParseStart(m, size) ==
    IF check_feed_size(size).ok
    THEN [m EXCEPT !.feed = init_feed("Rss20", limits.max_entries),
                   !.depth = 1,
                   !.outcome = "Running"]
    ELSE [m EXCEPT !.outcome = "Err"]

----------------------------------------------------------------------------
\* What the document holds, kept beside the reader as the events are handed
\* out: the <item> children of <channel> in document order with the text of
\* their <title>, whether the tokenizer reported an error, whether an
\* empty-element tag occurred, how many <rss> and <channel> elements occurred
\* (two stands for more than one), and the depth of the deepest element.

DocInit ==
    [items |-> <<>>, errors |-> FALSE, empties |-> FALSE, roots |-> 0,
     channels |-> 0, maxdepth |-> 0]

Min(a, b) == IF a < b THEN a ELSE b
Max(a, b) == IF a > b THEN a ELSE b

DocStep(d, r, ev) ==
    CASE ev.kind = "Err" -> [d EXCEPT !.errors = TRUE]
      [] ev.kind \in {"Start", "Empty"} ->
            [d EXCEPT !.items = IF ev.name = "item" /\ Context(r) = "channel"
                                THEN Append(@, None)
                                ELSE IF ev.name = "title" /\ Context(r) = "item"
                                        /\ Len(r.open) = 3
                                THEN [@ EXCEPT ![Len(@)] = Some("")]
                                ELSE @,
                      !.empties = @ \/ ev.kind = "Empty",
                      !.roots = IF ev.name = "rss" THEN Min(@ + 1, 2) ELSE @,
                      !.channels = IF ev.name = "channel" THEN Min(@ + 1, 2) ELSE @,
                      !.maxdepth = Max(@, Len(r.open) + 1)]
      [] ev.kind = "Text" /\ Context(r) = "title" /\ Len(r.open) = 4
                          /\ r.open[3] = "item" ->
            [d EXCEPT !.items[Len(d.items)] = Some(Unwrap(@) \o ev.text)]
      [] OTHER -> d

\* The event ev makes the function on top of the stack of m enter an element
\* and fail its check of the depth against max_nesting_depth.
DepthCheckFails(m, ev) ==
    LET fn == IF m.stack = <<>> THEN "" ELSE Top(m.stack).fn IN
    /\ \/ fn \in {"parse_channel", "parse_item"} /\ ev.kind \in {"Start", "Empty"}
       \/ fn \in {"parse_image", "parse_source", "skip_element"} /\ ev.kind = "Start"
    /\ m.depth + 1 > limits.max_nesting_depth

\* The event ev makes an append to a bounded collection, by the function on
\* top of the stack of m or by the arm that called it, find the collection at
\* its cap.
RejectedAppend(m, ev) ==
    LET fn == IF m.stack = <<>> THEN "" ELSE Top(m.stack).fn IN
    \/ /\ fn = "read_text"
       /\ ev.kind \in {"End", "Eof"}
       /\ LET site == Top(m.stack).site
              caller == m.stack[Len(m.stack) - 1]
          IN \/ /\ caller.fn = "parse_channel"
                /\ site = "link"
                /\ is_at_limit(m.feed.feed.links, limits.max_links_per_feed)
             \/ /\ caller.fn = "parse_channel"
                /\ site = "category"
                /\ is_at_limit(m.feed.feed.tags, limits.max_tags)
             \/ /\ caller.fn = "parse_item"
                /\ site = "link"
                /\ is_at_limit(caller.entry.links, limits.max_links_per_entry)
             \/ /\ caller.fn = "parse_item"
                /\ site = "category"
                /\ is_at_limit(caller.entry.tags, limits.max_tags)
    \/ /\ fn = "parse_item"
       /\ ev.kind \in {"Start", "Empty"}
       /\ ev.name = "enclosure"
       /\ m.depth + 1 <= limits.max_nesting_depth
       /\ IsSome(parse_enclosure(ev))
       /\ is_at_limit(Top(m.stack).entry.enclosures, limits.max_enclosures)

\* The recoverable error the event ev raises in the function on top of the
\* stack of m: a failed depth check, a tokenizer error, a non-empty <pubDate>
\* of <channel> that is no date, an <image> that ends without a url, an <item>
\* beyond max_entries; "" when it raises none.
ErrorRaised(m, ev) ==
    LET fn == IF m.stack = <<>> THEN "" ELSE Top(m.stack).fn IN
    CASE DepthCheckFails(m, ev) -> "depth"
      [] ev.kind = "Err" -> "xml"
      [] /\ fn = "read_text"
         /\ ev.kind \in {"End", "Eof"}
         /\ Top(m.stack).site = "pubDate"
         /\ m.stack[Len(m.stack) - 1].fn = "parse_channel"
         /\ Top(m.stack).text # ""
         /\ ~IsSome(parse_date(Top(m.stack).text)) -> "date"
      [] /\ fn = "parse_image"
         /\ \/ ev.kind = "End" /\ ev.name = "image"
            \/ ev.kind = "Eof"
         /\ Top(m.stack).url = "" -> "image"
      [] /\ fn = "parse_channel"
         /\ ev.kind \in {"Start", "Empty"}
         /\ ev.name = "item"
         /\ is_at_limit(m.feed.entries, limits.max_entries) -> "limit"
      [] OTHER -> ""

----------------------------------------------------------------------------
Init ==
    /\ limits \in LimitChoices
    /\ data_len \in DataLens
    /\ reader = [eof |-> FALSE, open |-> <<>>, count |-> 0, fresh |-> FALSE]
    /\ doc = DocInit
    /\ feed = NoFeed
    /\ depth = 0
    /\ stack = <<>>
    /\ outcome = "NotStarted"
    /\ hist = [depth_error |-> FALSE, last |-> [kind |-> "", name |-> ""],
               rejected |-> FALSE, last_error |-> "", channel_child |-> <<>>]
    /\ call = NoCall
    /\ ctxs = <<>>

Apply(m) ==
    /\ feed' = m.feed
    /\ depth' = m.depth
    /\ stack' = m.stack
    /\ outcome' = m.outcome

\* The call enters parse_rss20_with_limits.
Begin ==
    /\ outcome = "NotStarted"
    /\ Apply(ParseStart(Cur, data_len))
    /\ UNCHANGED <<limits, data_len, reader, doc, hist, call, ctxs>>

\* The function on top of the stack of m handles the event ev.
Handler(m, ev) ==
    LET fn == IF m.stack = <<>> THEN "" ELSE Top(m.stack).fn IN
    CASE fn = "" -> TopLevelEvent(m, ev)
      [] fn = "parse_channel" -> ParseChannelEvent(m, ev)
      [] fn = "parse_item" -> ParseItemEvent(m, ev)
      [] fn = "parse_image" -> ParseImageEvent(m, ev)
      [] fn = "parse_source" -> ParseSourceEvent(m, ev)
      [] fn = "read_text" -> ReadTextEvent(m, ev)
      [] fn = "skip_element" -> SkipElementEvent(m, ev)

\* One read_event_into call made by the function fn, on top of the stack.
Read(fn) ==
    /\ outcome = "Running"
    /\ Fn = fn
    /\ \E ev \in NextEvents(reader) :
          /\ Apply(Handler(Cur, ev))
          /\ reader' = Advance(reader, ev)
          /\ doc' = DocStep(doc, reader, ev)
          /\ hist' = [depth_error |-> hist.depth_error \/ DepthCheckFails(Cur, ev),
                       last |-> [kind |-> ev.kind, name |-> ev.name],
                       rejected |-> hist.rejected \/ RejectedAppend(Cur, ev),
                       last_error |-> IF ErrorRaised(Cur, ev) # ""
                                      THEN ErrorRaised(Cur, ev)
                                      ELSE hist.last_error,
                       channel_child |-> IF fn = "parse_channel"
                                            /\ ev.kind \in {"Start", "Empty"}
                                         THEN Append(reader.open, ev.name)
                                         ELSE hist.channel_child]
    /\ UNCHANGED <<limits, data_len, call, ctxs>>

TopLevel == Read("")
ParseChannel == Read("parse_channel")
ParseItem == Read("parse_item")
ParseImage == Read("parse_image")
ParseSource == Read("parse_source")
ReadText == Read("read_text")
SkipElement == Read("skip_element")

Next ==
    \/ Begin
    \/ TopLevel
    \/ ParseChannel
    \/ ParseItem
    \/ ParseImage
    \/ ParseSource
    \/ ReadText
    \/ SkipElement

Spec == Init /\ [][Next]_vars

\* Length of the longest input of the calls followed to their return.
MaxLiveLen == 6

LiveInit ==
    /\ limits \in LimitChoices
    /\ data_len \in {0, MaxLiveLen, MaxLen + 1}
    /\ reader = [eof |-> FALSE, open |-> <<>>, count |-> 0, fresh |-> FALSE]
    /\ doc = DocInit
    /\ feed = NoFeed
    /\ depth = 0
    /\ stack = <<>>
    /\ outcome = "NotStarted"
    /\ hist = [depth_error |-> FALSE, last |-> [kind |-> "", name |-> ""],
               rejected |-> FALSE, last_error |-> "", channel_child |-> <<>>]
    /\ call = NoCall
    /\ ctxs = <<>>

\* The call runs on: a function in its loop makes its next read_event_into call.
LiveSpec == LiveInit /\ [][Next]_vars /\ WF_vars(Next)

----------------------------------------------------------------------------
\* util/base_url.rs.  A string is a sequence of tokens: a scheme with its
\* colon ("http:"), a delimiter ("//", "/", "?", "#"), a dot segment ("..",
\* ".") or a name.  Url is the url crate's parsed URL: scheme, host, path
\* segments (a trailing "" is a trailing slash), query and fragment; a URL with
\* an opaque path (mailto:, tel:) has no host and cannot be a base.

starts_with(s, prefix) ==
    Len(s) >= Len(prefix) /\ SubSeq(s, 1, Len(prefix)) = prefix

\* The index of the first token t of s, Len(s) + 1 when there is none.
IndexOf(s, t) ==
    CHOOSE i \in 1..(Len(s) + 1) :
        /\ i = Len(s) + 1 \/ s[i] = t
        /\ \A j \in 1..(i - 1) : s[j] # t

\* The segments of a path: the names between its slashes.
RECURSIVE Split(_)
Split(t) ==
    IF t = <<>> THEN <<"">>
    ELSE IF Head(t) = "/" THEN <<"">> \o Split(Tail(t))
    ELSE LET rest == Split(Tail(t))
         IN <<Head(t) \o Head(rest)>> \o Tail(rest)

\* The path with its dot segments removed.
RECURSIVE Normalize(_, _)
Normalize(segs, acc) ==
    IF segs = <<>> THEN acc
    ELSE LET last == Len(segs) = 1
             popped == IF acc = <<>> THEN acc ELSE Pop(acc)
         IN CASE Head(segs) = ".." ->
                    Normalize(Tail(segs), IF last THEN Append(popped, "") ELSE popped)
              [] Head(segs) = "." ->
                    Normalize(Tail(segs), IF last THEN Append(acc, "") ELSE acc)
              [] OTHER -> Normalize(Tail(segs), Append(acc, Head(segs)))

\* The path, query and fragment parts of a reference without scheme and host.
Parts(rest) ==
    LET qi == IndexOf(rest, "?")
        fi == IndexOf(rest, "#")
    IN [path |-> SubSeq(rest, 1, Min(qi, fi) - 1),
        query |-> IF qi < fi THEN Some(SubSeq(rest, qi + 1, fi - 1)) ELSE None,
        fragment |-> IF fi <= Len(rest) THEN Some(SubSeq(rest, fi + 1, Len(rest)))
                     ELSE None]

\* Url::parse
Url_parse(s) ==
    CASE /\ Len(s) >= 3
         /\ s[1] \in {"http:", "https:", "ftp:"}
         /\ s[2] = "//"
         /\ s[3] \notin {"//", "/", "?", "#"} ->
            LET p == Parts(SubSeq(s, 4, Len(s)))
            IN Ok([scheme |-> s[1], host |-> Some(s[3]),
                   path |-> IF p.path = <<>> THEN <<"">>
                            ELSE Normalize(Tail(Split(p.path)), <<>>),
                   query |-> p.query, fragment |-> p.fragment, opaque |-> FALSE])
      [] Len(s) >= 1 /\ s[1] \in {"mailto:", "tel:"} ->
            Ok([scheme |-> s[1], host |-> None, path |-> Tail(s),
                query |-> None, fragment |-> None, opaque |-> TRUE])
      [] OTHER -> Err("RelativeUrlWithoutBase")

RECURSIVE PathTokens(_)
PathTokens(segs) ==
    IF segs = <<>> THEN <<>>
    ELSE <<"/">> \o (IF Head(segs) = "" THEN <<>> ELSE <<Head(segs)>>)
                \o PathTokens(Tail(segs))

\* Url::to_string
Url_to_string(u) ==
    (IF u.opaque THEN <<u.scheme>> \o u.path
     ELSE <<u.scheme, "//", Unwrap(u.host)>> \o PathTokens(u.path))
    \o (IF IsSome(u.query) THEN <<"?">> \o Unwrap(u.query) ELSE <<>>)
    \o (IF IsSome(u.fragment) THEN <<"#">> \o Unwrap(u.fragment) ELSE <<>>)

\* Url::join
Url_join(base, href) ==
    CASE href # <<>> /\ (href[1] \in {"http:", "https:", "ftp:", "mailto:", "tel:"}) ->
            Url_parse(href)
      [] href # <<>> /\ href[1] = "#" ->
            Ok([base EXCEPT !.fragment = Some(Tail(href))])
      [] base.opaque -> Err("RelativeUrlWithCannotBeABaseBase")
      [] OTHER ->
            LET p == Parts(href)
            IN Ok([base EXCEPT
                     !.path = CASE p.path = <<>> -> base.path
                                [] Head(p.path) = "/" ->
                                      Normalize(Tail(Split(p.path)), <<>>)
                                [] OTHER ->
                                      Normalize(Pop(base.path) \o Split(p.path), <<>>),
                     !.query = IF p.path = <<>> /\ ~IsSome(p.query) THEN base.query
                               ELSE p.query,
                     !.fragment = p.fragment])

\* resolve_url without the test of href's own scheme.
resolve_url_NoSchemeCheck(href, base) ==
    IF ~IsSome(base) THEN href
    ELSE IF ~Url_parse(Unwrap(base)).ok THEN href
    ELSE LET resolved == Url_join(Url_parse(Unwrap(base)).val, href)
         IN IF resolved.ok THEN Url_to_string(resolved.val) ELSE href

\* resolve_url that gives the base back for an empty href.
resolve_url_EmptyIsBase(href, base) ==
    IF href = <<>> /\ IsSome(base) THEN Unwrap(base)
    ELSE IF ~IsSome(base) THEN href
    ELSE IF ~Url_parse(Unwrap(base)).ok THEN href
    ELSE LET resolved == Url_join(Url_parse(Unwrap(base)).val, href)
         IN IF resolved.ok THEN Url_to_string(resolved.val) ELSE href

\* resolve_url(href, base)
resolve_url(href, base) ==
    IF \/ starts_with(href, <<"http:", "//">>)
       \/ starts_with(href, <<"https:", "//">>)
       \/ starts_with(href, <<"mailto:">>)
       \/ starts_with(href, <<"tel:">>)
       \/ starts_with(href, <<"ftp:", "//">>)
    THEN href
    ELSE IF ~IsSome(base) THEN href
    ELSE IF ~Url_parse(Unwrap(base)).ok THEN href
    ELSE LET resolved == Url_join(Url_parse(Unwrap(base)).val, href)
         IN IF resolved.ok THEN Url_to_string(resolved.val) ELSE href

\* combine_bases where a present parent wins over the child.
combine_bases_ParentWins(parent_base, child_base) ==
    CASE IsSome(parent_base) -> Some(Unwrap(parent_base))
      [] IsSome(child_base) -> Some(resolve_url(Unwrap(child_base), parent_base))
      [] OTHER -> None

\* combine_bases(parent_base, child_base)
combine_bases(parent_base, child_base) ==
    CASE IsSome(child_base) -> Some(resolve_url(Unwrap(child_base), parent_base))
      [] IsSome(parent_base) -> Some(Unwrap(parent_base))
      [] OTHER -> None

\* BaseUrlContext::new, with_base, update_base, resolve, child, child_with_base
BaseUrlContext_new == [base |-> None]

BaseUrlContext_with_base(base) == [base |-> Some(base)]

update_base(ctx, xml_base) == [base |-> Some(resolve_url(xml_base, ctx.base))]

resolve(ctx, href) == resolve_url(href, ctx.base)

child(ctx) == [base |-> ctx.base]

\* child_with_base that takes xml:base as it is written.
child_with_base_Override(ctx, xml_base) == [base |-> Some(xml_base)]

child_with_base(ctx, xml_base) ==
    [base |-> combine_bases(ctx.base, Some(xml_base))]

----------------------------------------------------------------------------
\* parser/mod.rs and parser/detect.rs.  The input is a sequence of the
\* structural tokens of a document.

\* ParsedFeed::new()
ParsedFeed_new ==
    [feed |-> FeedMeta_default, entries |-> <<>>, bozo |-> FALSE,
     bozo_exception |-> None, encoding |-> "utf-8", version |-> "Unknown"]

\* ParsedFeed::default(), derived: every field has the default of its type.
ParsedFeed_default ==
    [feed |-> FeedMeta_default, entries |-> <<>>, bozo |-> FALSE,
     bozo_exception |-> None, encoding |-> "", version |-> "Unknown"]

\* The constructors of ParsedFeed a caller can use: new(), with_capacity(n)
\* and default().
Construct(name, args) ==
    CASE name = "ParsedFeed::new" -> ParsedFeed_new
      [] name = "ParsedFeed::with_capacity" -> ParsedFeed_with_capacity(args[1])
      [] name = "ParsedFeed::default" -> ParsedFeed_default

\* parse(data)
parse(data) == Ok(ParsedFeed_new)

\* detect_format(data)
detect_format(data) == "Unknown"

----------------------------------------------------------------------------
\* The bindings (feedparser-rs-node/src/lib.rs, feedparser-rs-py/src/lib.rs) and
\* the HTTP client (http/client.rs).  An input is described by its length in
\* bytes, by how it starts, and by whether it is malformed.

\* DEFAULT_MAX_FEED_SIZE of the Node binding, and the max_feed_size_bytes of
\* ParserLimits::default(): 100 MB.
DEFAULT_MAX_FEED_SIZE == 104857600

\* core::parse_with_limits(data, limits): the size check, then the parse, which
\* reports malformed input in bozo.
core_parse_with_limits(data, max_feed_size_bytes) ==
    IF data.len > max_feed_size_bytes
    THEN Err([kind |-> "InvalidFormat", msg |-> "Feed size exceeds maximum"])
    ELSE Ok([ParsedFeed_new EXCEPT
                !.bozo = data.malformed,
                !.bozo_exception = IF data.malformed THEN Some("malformed") ELSE None])

\* parse_with_options that rejects an input of exactly max_size bytes too.
parse_with_options_AtLimit(source, max_size) ==
    LET max_feed_size == IF IsSome(max_size) THEN Unwrap(max_size)
                         ELSE DEFAULT_MAX_FEED_SIZE
    IN IF source.len >= max_feed_size
       THEN [ok |-> FALSE, val |-> "Feed size exceeds maximum allowed", core |-> None]
       ELSE LET parsed == core_parse_with_limits(source, max_feed_size)
            IN [ok |-> parsed.ok,
                val |-> IF parsed.ok THEN parsed.val
                        ELSE "Parse error: " \o to_string(parsed.val),
                core |-> Some(max_feed_size)]

\* parse_with_options(source, max_size) of the Node binding.  core is the
\* max_feed_size_bytes of the limits handed to the core, None when the core is
\* not called.
parse_with_options(source, max_size) ==
    LET max_feed_size == IF IsSome(max_size) THEN Unwrap(max_size)
                         ELSE DEFAULT_MAX_FEED_SIZE
    IN IF source.len > max_feed_size
       THEN [ok |-> FALSE, val |-> "Feed size exceeds maximum allowed", core |-> None]
       ELSE LET parsed == core_parse_with_limits(source, max_feed_size)
            IN [ok |-> parsed.ok,
                val |-> IF parsed.ok THEN parsed.val
                        ELSE "Parse error: " \o to_string(parsed.val),
                core |-> Some(max_feed_size)]

\* convert_feed_error(err): the Python exception raised for a FeedError.
convert_feed_error(err) ==
    CASE err.kind \in {"XmlError", "InvalidFormat", "EncodingError", "JsonError"} ->
            "ValueError"
      [] err.kind \in {"IoError", "Unknown"} -> "RuntimeError"

\* source.extract::<String>() succeeds: the source is a str whose text is
\* valid Unicode.  For a str that holds a lone surrogate the conversion to
\* UTF-8 fails.
extract_String(source) == source.type = "str"

\* source.extract::<Vec<u8>>() succeeds: pyo3 takes every sequence of integers
\* 0..255 other than str (a str of either kind is refused).
extract_Vec_u8(source) == source.type \in {"bytes", "bytearray", "list of int"}

\* The outcome of a call from Python: the exception raised ("" for none) and
\* the feed returned.
Raises(exception) == [raises |-> exception, val |-> None]

\* The rest of parse_with_limits once the bytes are extracted.
py_parse_bytes(source, limits_arg) ==
    LET parser_limits == IF IsSome(limits_arg) THEN Unwrap(limits_arg)
                         ELSE DEFAULT_MAX_FEED_SIZE
        parsed == core_parse_with_limits(source, parser_limits)
    IN IF parsed.ok THEN [raises |-> "", val |-> Some(parsed.val)]
       ELSE Raises(convert_feed_error(parsed.val))

\* parse_with_limits(source, limits) of the Python binding.
py_parse_with_limits(source, limits_arg) ==
    IF extract_String(source)
    THEN IF source.starts \in {"http://", "https://"}
         THEN Raises("NotImplementedError")
         ELSE py_parse_bytes(source, limits_arg)
    ELSE IF extract_Vec_u8(source) THEN py_parse_bytes(source, limits_arg)
    ELSE Raises("TypeError")

\* Duration::from_secs(30), the timeout FeedHttpClient::new gives the client.
DefaultTimeoutSecs == 30

\* env!("CARGO_PKG_VERSION") of the core crate.
CARGO_PKG_VERSION == "0.1.0"

\* FeedError::Http { message }
Http(message) == [kind |-> "Http", msg |-> message]

\* The header names a request or a response carries.
HeaderNames ==
    {"user-agent", "accept", "accept-encoding", "if-none-match",
     "if-modified-since", "etag", "last-modified", "content-type", "x-custom"}

\* The characters no header value holds.  A text given as a header value is a
\* sequence of pieces, each a run of visible characters or one of these.
ControlChars == {"\n", "\r", "\\x7f"}

\* HeaderValue::from_str(s)
HeaderValue_from_str(s) ==
    IF \E i \in 1..Len(s) : s[i] \in ControlChars
    THEN Err("failed to parse header value")
    ELSE Ok(s)

\* FeedHttpClient::new(): build is what Client::builder()...build() returns.
\* client is the reqwest Client with the settings it was built with.
FeedHttpClient_new(build) ==
    IF ~build.ok
    THEN Err(Http("Failed to create HTTP client: " \o build.val))
    ELSE Ok([client |-> [timeout |-> DefaultTimeoutSecs, gzip |-> TRUE,
                         deflate |-> TRUE, brotli |-> TRUE, redirect |-> 10],
             user_agent |-> <<"feedparser-rs/" \o CARGO_PKG_VERSION
                              \o " (+https://github.com/bug-ops/feedparser-rs)">>,
             timeout |-> DefaultTimeoutSecs])

\* FeedHttpClient::with_user_agent
with_user_agent(self, agent) == [self EXCEPT !.user_agent = agent]

\* FeedHttpClient::with_timeout
with_timeout(self, timeout) == [self EXCEPT !.timeout = timeout]

\* FeedHttpClient::build_response(response, _original_url), without the
\* encoding field (FeedHttpResponse::extract_charset_from_content_type is
\* defined in http/response.rs).  response.body is what response.bytes() gives;
\* the header values of the responses considered are all visible ASCII, so
\* that every header is copied.
build_response(response, original_url) ==
    IF response.status # 304 /\ ~response.body.ok
    THEN Err(Http("Failed to read response body: " \o response.body.val))
    ELSE Ok([status |-> response.status,
             url |-> response.url,
             headers |-> response.headers,
             body |-> IF response.status = 304 THEN <<>> ELSE response.body.val,
             etag |-> response.headers["etag"],
             last_modified |-> response.headers["last-modified"],
             content_type |-> response.headers["content-type"]])

\* The headers get builds: the standard ones, the conditional ones, then those
\* of extra_headers, which replace a header of the same name.
RequestHeaders(user_agent, etag, modified, extra_headers) ==
    LET standard ==
            [n \in HeaderNames |->
                CASE n = "user-agent" -> Some(user_agent)
                  [] n = "accept" ->
                        Some(<<"application/rss+xml, application/atom+xml, application/xml, text/xml, */*">>)
                  [] n = "accept-encoding" -> Some(<<"gzip, deflate, br">>)
                  [] n = "if-none-match" -> etag
                  [] n = "if-modified-since" -> modified
                  [] OTHER -> None]
    IN IF IsSome(extra_headers)
       THEN [n \in HeaderNames |->
                IF IsSome(Unwrap(extra_headers)[n]) THEN Unwrap(extra_headers)[n]
                ELSE standard[n]]
       ELSE standard

\* FeedHttpClient::get(url, etag, modified, extra_headers).  net is what send()
\* returns.  sent is the request handed to the network, None when none is: its
\* headers, and the timeout that bounds it, which is the one of self.client
\* (the request is given none of its own).
get(self, url, etag, modified, extra_headers, net) ==
    IF ~HeaderValue_from_str(self.user_agent).ok
    THEN [sent |-> None,
          result |-> Err(Http("Invalid User-Agent: "
                              \o HeaderValue_from_str(self.user_agent).val))]
    ELSE IF IsSome(etag) /\ ~HeaderValue_from_str(Unwrap(etag)).ok
    THEN [sent |-> None,
          result |-> Err(Http("Invalid ETag: "
                              \o HeaderValue_from_str(Unwrap(etag)).val))]
    ELSE IF IsSome(modified) /\ ~HeaderValue_from_str(Unwrap(modified)).ok
    THEN [sent |-> None,
          result |-> Err(Http("Invalid Last-Modified: "
                              \o HeaderValue_from_str(Unwrap(modified)).val))]
    ELSE [sent |-> Some([url |-> url,
                         headers |-> RequestHeaders(self.user_agent, etag, modified,
                                                    extra_headers),
                         timeout |-> self.client.timeout]),
          result |-> IF net.ok THEN build_response(net.val, url)
                     ELSE Err(Http("HTTP request failed: " \o net.val))]

\* A client built with the given settings, then one get; no request is sent
\* when the client cannot be built.
ClientGet(build, agent, timeout, url, etag, modified, extra_headers, net) ==
    LET made == FeedHttpClient_new(build) IN
    IF ~made.ok THEN [sent |-> None, result |-> made]
    ELSE LET c0 == made.val
             c1 == IF IsSome(agent) THEN with_user_agent(c0, Unwrap(agent)) ELSE c0
             c2 == IF IsSome(timeout) THEN with_timeout(c1, Unwrap(timeout)) ELSE c1
         IN get(c2, url, etag, modified, extra_headers, net)

----------------------------------------------------------------------------
\* The calls considered.

MaxScopes == 2

HrefDir == <<"http:", "//", "example.com", "/", "dir", "/">>
HrefSub == <<"http:", "//", "example.com", "/", "dir", "/", "sub", "/">>
HrefPage == <<"http:", "//", "example.com", "/", "page.html">>
HrefBare == <<"http:", "//", "example.com">>
HrefFragment == <<"http:", "//", "example.com", "/", "page.html", "#", "top">>
HrefQuery == <<"http:", "//", "example.com", "/", "page.html", "?", "q=1">>
HrefOther == <<"https:", "//", "other.com", "/">>
HrefMail == <<"mailto:", "test@example.com">>
HrefInvalid == <<"not a valid url">>

\* The values given as a base, valid and invalid.
Bases ==
    {HrefDir, HrefSub, HrefPage, HrefBare, HrefFragment, HrefQuery, HrefOther,
     HrefMail, HrefInvalid}

\* The values given as an href: absolute ones, relative ones, the empty string.
Hrefs ==
    {<<>>, <<"page.html">>, <<"/", "absolute", "/", "path">>,
     <<"..", "/", "sibling", "/", "page">>, <<"..">>, <<".", "/", "page.html">>,
     <<"items", "/">>, <<"#", "section">>, <<"?", "query=value">>,
     <<"http:", "//", "other.com", "/", "a">>, <<"ftp:", "//", "other.com", "/", "f">>,
     <<"tel:", "+1234567890">>, HrefBare, HrefOther, HrefMail}

\* The values of an xml:base attribute.
XmlBases == {<<"items", "/">>, <<"..">>, HrefOther, HrefPage}

OptionOf(S) == {None} \cup {Some(x) : x \in S}

RssDocument ==
    <<"<?xml?>", "<rss version=2.0>", "<channel>", "<title>", "Example Feed",
      "<item>", "<item>">>
AtomDocument == <<"<?xml?>", "<feed xmlns=atom>", "<title>", "Example Feed", "<entry>">>
JsonDocument ==
    <<"{", "version: https://jsonfeed.org/version/1.1", "title:", "Example Feed",
      "items: [", "{", "{">>
BinaryDocument == <<"\\x00\\xff">>

\* The inputs given to parse and detect_format.
Documents == {<<>>, BinaryDocument, RssDocument, Tail(RssDocument), AtomDocument,
              JsonDocument}

\* The values resolved inside a scope.
ScopeHrefs == {<<>>, <<"page.html">>, <<"..", "/", "sibling", "/", "page">>, HrefOther}

\* The longest base, in tokens, a scope is given.
MaxUrlLen == 10

\* A call not made yet: the operation and its arguments.
Pending(op, args) == [op |-> op, args |-> args, pending |-> TRUE, result |-> None]

Returned(result) == [call EXCEPT !.pending = FALSE, !.result = result]

\* The URL fetched.
FeedUrl == "https://example.com/feed.xml"

\* Header maps given to get as extra_headers: an empty one, one with a header
\* of its own, one with headers get sets itself.
ExtraHeaders ==
    {[n \in HeaderNames |-> None],
     [n \in HeaderNames |-> IF n = "x-custom" THEN Some(<<"1">>) ELSE None],
     [n \in HeaderNames |->
        CASE n = "user-agent" -> Some(<<"other-agent/9">>)
          [] n = "if-none-match" -> Some(<<"zzz">>)
          [] OTHER -> None]}

\* A response of the server: its status, its final URL, its headers, and what
\* reading its body gives.
Response(status, body) ==
    [status |-> status,
     url |-> FeedUrl,
     headers |-> [n \in HeaderNames |->
                    CASE n = "etag" -> Some("abc")
                      [] n = "content-type" -> Some("application/rss+xml; charset=utf-8")
                      [] OTHER -> None],
     body |-> body]

\* What send() can return.
Answers ==
    {Err("connection refused"),
     Ok(Response(200, Ok(RssDocument))),
     Ok(Response(200, Err("connection reset"))),
     Ok(Response(304, Ok(<<>>)))}

\* The inputs of the bindings.
Input(type, starts, len, malformed) ==
    [type |-> type, starts |-> starts, len |-> len, malformed |-> malformed]

NodeSources ==
    {Input(type, "<", len, malformed) :
        type \in {"Buffer", "String"},
        len \in {0, 10, 11, DEFAULT_MAX_FEED_SIZE, DEFAULT_MAX_FEED_SIZE + 1},
        malformed \in BOOLEAN}

PySources ==
    {Input(type, starts, len, malformed) :
        type \in {"str", "str with a lone surrogate", "bytes", "bytearray",
                  "list of int", "int", "NoneType"},
        starts \in {"<", "http://", "https://"},
        len \in {10, 11, DEFAULT_MAX_FEED_SIZE + 1},
        malformed \in BOOLEAN}

BindingCalls ==
    {Pending("parse_with_options", <<source, max_size>>) :
        source \in NodeSources, max_size \in OptionOf({0, 10})}
    \cup {Pending("py_parse_with_limits", <<source, limits_arg>>) :
              source \in PySources, limits_arg \in OptionOf({10})}
    \cup {Pending("FeedHttpClient::get",
                  <<build, agent, timeout, FeedUrl, etag, modified, extra_headers, net>>) :
              build \in {Ok(<<>>), Err("builder error")},
              agent \in OptionOf({<<"my-reader/1.0">>, <<"bad", "\n", "agent">>}),
              timeout \in OptionOf({5, 60}),
              etag \in OptionOf({<<"abc">>, <<"bad", "\r", "\n", "etag">>}),
              modified \in OptionOf({<<DateText>>, <<"bad", "\\x7f", "date">>}),
              extra_headers \in OptionOf(ExtraHeaders),
              net \in Answers}

Calls ==
    BindingCalls \cup
    {Pending("resolve_url", <<href, base>>) : href \in Hrefs, base \in OptionOf(Bases)}
    \cup {Pending("combine_bases", <<parent_base, child_base>>) :
              parent_base \in OptionOf(Bases), child_base \in OptionOf(XmlBases)}
    \cup {Pending("parse", <<data>>) : data \in Documents}
    \cup {Pending("ParsedFeed::new", <<>>), Pending("ParsedFeed::default", <<>>)}
    \cup {Pending("ParsedFeed::with_capacity", <<entry_count>>) : entry_count \in {0, 50}}
    \cup {Pending("detect_format", <<data>>) : data \in Documents}

\* The call of parse_with_options of the Node binding.
CallParseWithOptions ==
    /\ call.op = "parse_with_options" /\ call.pending
    /\ call' = Returned(parse_with_options(call.args[1], call.args[2]))

\* The call of parse_with_limits of the Python binding.
CallPyParseWithLimits ==
    /\ call.op = "py_parse_with_limits" /\ call.pending
    /\ call' = Returned(py_parse_with_limits(call.args[1], call.args[2]))

\* The calls that build a FeedHttpClient and send one request with it.
CallClientGet ==
    /\ call.op = "FeedHttpClient::get" /\ call.pending
    /\ call' = Returned(ClientGet(call.args[1], call.args[2], call.args[3],
                                  call.args[4], call.args[5], call.args[6],
                                  call.args[7], call.args[8]))

\* The call of resolve_url.
CallResolveUrl ==
    /\ call.op = "resolve_url" /\ call.pending
    /\ call' = Returned(resolve_url(call.args[1], call.args[2]))

\* The call of combine_bases.
CallCombineBases ==
    /\ call.op = "combine_bases" /\ call.pending
    /\ call' = Returned(combine_bases(call.args[1], call.args[2]))

\* The call of parse.
CallParse ==
    /\ call.op = "parse" /\ call.pending
    /\ call' = Returned(parse(call.args[1]))

\* The call of a constructor of ParsedFeed.
CallConstruct ==
    /\ call.op \in {"ParsedFeed::new", "ParsedFeed::with_capacity", "ParsedFeed::default"}
    /\ call.pending
    /\ call' = Returned(Construct(call.op, call.args))

\* The call of detect_format.
CallDetectFormat ==
    /\ call.op = "detect_format" /\ call.pending
    /\ call' = Returned(detect_format(call.args[1]))

\* No RSS parse runs beside the calls.
ParserIdle ==
    /\ limits = Limits(1, 3)
    /\ data_len = 0
    /\ reader = [eof |-> FALSE, open |-> <<>>, count |-> 0, fresh |-> FALSE]
    /\ doc = DocInit
    /\ feed = NoFeed
    /\ depth = 0
    /\ stack = <<>>
    /\ outcome = "NotStarted"
    /\ hist = [depth_error |-> FALSE, last |-> [kind |-> "", name |-> ""],
               rejected |-> FALSE, last_error |-> "", channel_child |-> <<>>]

UtilInit ==
    /\ ParserIdle
    /\ call \in Calls
    /\ ctxs = <<>>

UtilNext ==
    /\ \/ CallResolveUrl
       \/ CallCombineBases
       \/ CallParse
       \/ CallConstruct
       \/ CallParseWithOptions
       \/ CallPyParseWithLimits
       \/ CallClientGet
       \/ CallDetectFormat
    /\ UNCHANGED <<limits, data_len, reader, doc, feed, depth, stack, outcome, hist,
                   ctxs>>

UtilSpec == UtilInit /\ [][UtilNext]_vars

\* The contexts of the scopes a traversal is in, the innermost last.

BaseFits(ctx) == IsSome(ctx.base) => Len(Unwrap(ctx.base)) <= MaxUrlLen

\* The traversal enters a nested scope that declares no base: ctx.child().
EnterChild ==
    /\ Len(ctxs) < MaxScopes
    /\ ctxs' = Append(ctxs, child(Top(ctxs)))
    /\ call' = [op |-> "child"]

\* The traversal enters a nested scope that declares xml:base:
\* ctx.child_with_base(xml_base).
EnterChildWithBase ==
    /\ Len(ctxs) < MaxScopes
    /\ \E xml_base \in XmlBases :
          /\ BaseFits(child_with_base(Top(ctxs), xml_base))
          /\ ctxs' = Append(ctxs, child_with_base(Top(ctxs), xml_base))
          /\ call' = [op |-> "child_with_base", xml_base |-> xml_base]

\* The traversal leaves the innermost nested scope: its context is dropped.
LeaveScope ==
    /\ Len(ctxs) > 1
    /\ ctxs' = Pop(ctxs)
    /\ call' = [op |-> "leave"]

\* ctx.update_base(xml_base) on the innermost context.
UpdateBase ==
    /\ \E xml_base \in XmlBases :
          /\ BaseFits(update_base(Top(ctxs), xml_base))
          /\ ctxs' = SetTop(ctxs, update_base(Top(ctxs), xml_base))
          /\ call' = [op |-> "update_base", xml_base |-> xml_base]

\* ctx.resolve(href) on the innermost context.
CallResolve ==
    /\ \E href \in ScopeHrefs :
          call' = [op |-> "resolve", href |-> href,
                   result |-> resolve(Top(ctxs), href)]
    /\ UNCHANGED ctxs

ScopeInit ==
    /\ ParserIdle
    /\ call = NoCall
    /\ ctxs \in {<<BaseUrlContext_new>>}
                \cup {<<BaseUrlContext_with_base(b)>> : b \in {HrefDir, HrefPage}}

ScopeNext ==
    /\ \/ EnterChild
       \/ EnterChildWithBase
       \/ LeaveScope
       \/ UpdateBase
       \/ CallResolve
    /\ UNCHANGED <<limits, data_len, reader, doc, feed, depth, stack, outcome, hist>>

ScopeSpec == ScopeInit /\ [][ScopeNext]_vars

----------------------------------------------------------------------------
\* Properties.

Oversize == data_len > limits.max_feed_size_bytes

\* The document read is a complete, well-formed RSS 2.0 document: one <rss>
\* root with one <channel>, every element closed, no tokenizer error, and no
\* element deeper than max_nesting_depth.
ValidDoc ==
    /\ reader.eof
    /\ reader.open = <<>>
    /\ ~doc.errors
    /\ doc.roots = 1
    /\ doc.channels = 1
    /\ doc.maxdepth <= limits.max_nesting_depth

\* C1: parse_rss20_with_limits returns Err exactly when the input is longer
\* than max_feed_size_bytes, and then no event has been read; every other
\* input is parsed and never ends in Err.
C1_FatalOnlyOnSize ==
    /\ outcome = "Err" => Oversize
    /\ Oversize => outcome \in {"NotStarted", "Err"} /\ reader.count = 0 /\ ~reader.eof
    /\ ~Oversize => outcome \in {"NotStarted", "Running", "Ok"}

C1_Witness == outcome = "Err" /\ Oversize /\ reader.count = 0

\* C2: for a valid document with N <item> elements, N <= max_entries, the
\* result has N entries and entries[i] carries the title of the i-th item.
C2_EntriesMatchItems ==
    (outcome = "Ok" /\ ValidDoc /\ Len(doc.items) <= limits.max_entries) =>
        /\ Len(feed.entries) = Len(doc.items)
        /\ \A i \in 1..Len(doc.items) : feed.entries[i].title = doc.items[i]

\* C3: entries never exceed max_entries, and a valid document with more than
\* max_entries items yields exactly the first max_entries items and bozo.
C3_EntryCap ==
    /\ Len(feed.entries) <= limits.max_entries
    /\ (outcome = "Ok" /\ ValidDoc /\ Len(doc.items) > limits.max_entries) =>
          /\ Len(feed.entries) = limits.max_entries
          /\ \A i \in 1..limits.max_entries : feed.entries[i].title = doc.items[i]
          /\ feed.bozo

\* parse_item is active, as the function reading or below it.
InItem == \E i \in 1..Len(stack) : stack[i].fn = "parse_item"

\* This step makes parse_item return an error to parse_channel.
ItemFailed ==
    /\ InItem
    /\ stack' = <<ChannelFrame>>
    /\ feed'.entries = feed.entries

\* C4: when parse_item fails, bozo is set with a description and
\* parse_channel resumes reading at the next sibling of the item.
C4_ItemErrorCaughtAtBoundary ==
    [][ItemFailed =>
          /\ feed'.bozo
          /\ IsSome(feed'.bozo_exception)
          /\ (~reader'.eof => reader'.open = <<"rss", "channel">>)]_vars

\* C5: whenever a loop is about to read, the depth counter has the value of
\* the element the loop is in: 1 at the top level, 2 in parse_channel, 3 in
\* parse_item.
C5_DepthRestored ==
    outcome = "Running" =>
        /\ stack = <<>> => depth = 1
        /\ Fn = "parse_channel" => depth = 2
        /\ Fn = "parse_item" => depth = 3

\* C6: if a depth check failed anywhere during the parse, the returned feed
\* has bozo set and a bozo_exception.
C6_DepthErrorSetsBozo ==
    (outcome = "Ok" /\ hist.depth_error) =>
        feed.bozo /\ IsSome(feed.bozo_exception)

\* C7: bozo_exception is set if and only if bozo is true, in every state.
C7_BozoIffException == feed.bozo <=> IsSome(feed.bozo_exception)

C7_Witness == outcome = "Ok" /\ feed.bozo /\ IsSome(feed.bozo_exception)

\* This step makes the read_text called by the arm of the child element name
\* in the function caller return the text it has read.
TextArm(caller, name) ==
    /\ Fn = "read_text"
    /\ Top(stack).site = name
    /\ stack[Len(stack) - 1].fn = caller
    /\ hist'.last.kind \in {"End", "Eof"}

\* After this step the function that made the call is reading on.
CallerGoesOn == outcome' = "Running" /\ Len(stack') = Len(stack) - 1

BozoUnchanged ==
    feed'.bozo = feed.bozo /\ feed'.bozo_exception = feed.bozo_exception

\* C8: a <pubDate> of the channel or of an item sets bozo with the "Invalid
\* pubDate" description exactly when its text is non-empty and parse_date
\* returns nothing; otherwise bozo is left alone; the traversal goes on.
C8_InvalidDateSetsBozo ==
    [][(TextArm("parse_channel", "pubDate") \/ TextArm("parse_item", "pubDate")) =>
          /\ IF Top(stack).text # "" /\ ~IsSome(parse_date(Top(stack).text))
             THEN feed'.bozo /\ feed'.bozo_exception = Some("Invalid pubDate format")
             ELSE BozoUnchanged
          /\ CallerGoesOn]_vars

\* C9: parse_date returns a timestamp for an RFC 2822 date, so that such a
\* <pubDate> sets feed.updated (channel) or entry.published (item) and leaves
\* bozo alone; it returns nothing for a text that is no date.
C9_KnownDateParsed ==
    [][/\ parse_date(PlainText) = None
       /\ (TextArm("parse_channel", "pubDate") /\ Top(stack).text = DateText) =>
              IsSome(feed'.feed.updated) /\ BozoUnchanged
       /\ (TextArm("parse_item", "pubDate") /\ Top(stack).text = DateText) =>
              IsSome(Top(stack').entry.published) /\ BozoUnchanged]_vars

\* The collections of an entry are within their caps.
EntryWithinCaps(e) ==
    /\ Len(e.links) <= limits.max_links_per_entry
    /\ Len(e.tags) <= limits.max_tags
    /\ Len(e.enclosures) <= limits.max_enclosures

\* Every bounded collection, of the feed, of the stored entries and of the
\* entry being built, is within its cap.
WithinCaps ==
    /\ Len(feed.feed.links) <= limits.max_links_per_feed
    /\ Len(feed.feed.tags) <= limits.max_tags
    /\ \A i \in 1..Len(feed.entries) : EntryWithinCaps(feed.entries[i])
    /\ \A i \in 1..Len(stack) :
          stack[i].fn = "parse_item" => EntryWithinCaps(stack[i].entry)

\* This step makes parse_item enter an <enclosure> within the depth limit.
EnclosureArm ==
    /\ Fn = "parse_item"
    /\ hist'.last.kind \in {"Start", "Empty"}
    /\ hist'.last.name = "enclosure"
    /\ depth + 1 <= limits.max_nesting_depth

\* An append to a collection that is at its cap leaves the collection as it
\* was and lets the function go on.
AppendAtCapacity ==
    /\ (TextArm("parse_channel", "link")
            /\ Len(feed.feed.links) >= limits.max_links_per_feed) =>
          feed'.feed.links = feed.feed.links /\ CallerGoesOn
    /\ (TextArm("parse_channel", "category")
            /\ Len(feed.feed.tags) >= limits.max_tags) =>
          feed'.feed.tags = feed.feed.tags /\ CallerGoesOn
    /\ (TextArm("parse_item", "link")
            /\ Len(stack[Len(stack) - 1].entry.links) >= limits.max_links_per_entry) =>
          /\ CallerGoesOn
          /\ Top(stack').entry.links = stack[Len(stack) - 1].entry.links
    /\ (TextArm("parse_item", "category")
            /\ Len(stack[Len(stack) - 1].entry.tags) >= limits.max_tags) =>
          /\ CallerGoesOn
          /\ Top(stack').entry.tags = stack[Len(stack) - 1].entry.tags
    /\ (EnclosureArm /\ Len(Top(stack).entry.enclosures) >= limits.max_enclosures) =>
          /\ outcome' = "Running"
          /\ Len(stack') = Len(stack) + 1
          /\ Top(stack').fn = "skip_element"
          /\ stack'[Len(stack)].entry.enclosures = Top(stack).entry.enclosures

\* C10: every bounded collection stays within its cap in every state, and an
\* append at capacity stores nothing and raises no error.
C10_CollectionsCapped == []WithinCaps /\ [][AppendAtCapacity]_vars

C10_Witness ==
    /\ outcome = "Ok"
    /\ Len(feed.feed.links) = limits.max_links_per_feed
    /\ IsSome(feed.feed.link)
    /\ feed.feed.link # Some(feed.feed.links[1].href)

\* C11: when an append was rejected because its collection was at capacity,
\* the returned feed has bozo set.
C11_RejectedAppendSetsBozo == (outcome = "Ok" /\ hist.rejected) => feed.bozo

\* C12: when the tokenizer reports an error the call does not end in Err, what
\* the feed and its entries held before the error is kept, a tokenizer error
\* at the top level ends the loop, and the returned feed has bozo set.
C12_TokenizerErrorKeepsData ==
    /\ []((outcome = "Ok" /\ doc.errors) => feed.bozo)
    /\ [][hist'.last.kind = "Err" =>
              /\ outcome' # "Err"
              /\ feed'.feed = feed.feed
              /\ feed'.entries = feed.entries
              /\ stack = <<>> => outcome' = "Ok"]_vars

\* The descriptions the parser writes for a recoverable error.
Descriptions(error) ==
    CASE error = "depth" -> {to_string(DepthError(d)) : d \in 1..(MaxLen + 2)}
      [] error = "xml" ->
            UNION {{to_string(XmlError(ErrEvent([open |-> o]))),
                    "XML parsing error: " \o ErrEvent([open |-> o]).text} :
                        o \in {<<>>} \cup
                              {<<n>> : n \in {"rss", "channel", "item", "image", "source",
                                              "enclosure", "x"} \cup ScalarNames}}
      [] error = "date" -> {"Invalid pubDate format"}
      [] error = "image" -> {to_string(ImageMissingUrl)}
      [] error = "limit" -> {"Entry limit exceeded: " \o ToString(limits.max_entries)}
      [] OTHER -> {}

\* C13: the returned bozo_exception describes the last recoverable error of
\* the traversal.
C13_LastErrorDescribed ==
    (outcome = "Ok" /\ hist.last_error # "") =>
        /\ IsSome(feed.bozo_exception)
        /\ Unwrap(feed.bozo_exception) \in Descriptions(hist.last_error)

\* The links, tags and enclosures of an entry are non-empty.
EntryRecordsNonEmpty(e) ==
    /\ \A i \in 1..Len(e.links) : e.links[i].href # ""
    /\ \A i \in 1..Len(e.tags) : e.tags[i].term # ""
    /\ \A i \in 1..Len(e.enclosures) : e.enclosures[i].url # ""

\* C14: every stored Link has a non-empty href, every stored Tag a non-empty
\* term and every stored Enclosure a non-empty url.
C14_RecordsNonEmpty ==
    /\ \A i \in 1..Len(feed.feed.links) : feed.feed.links[i].href # ""
    /\ \A i \in 1..Len(feed.feed.tags) : feed.feed.tags[i].term # ""
    /\ \A i \in 1..Len(feed.entries) : EntryRecordsNonEmpty(feed.entries[i])

----------------------------------------------------------------------------
\* Properties of util/base_url.rs.

\* The call op has returned.
Done(op) == call.op = op /\ ~call.pending

\* href carries one of the recognized absolute schemes.
AbsoluteHref(href) ==
    /\ href # <<>>
    /\ \/ href[1] \in {"mailto:", "tel:"}
       \/ href[1] \in {"http:", "https:", "ftp:"} /\ Len(href) >= 2 /\ href[2] = "//"

\* The value is a URL: a recognized scheme followed, for http, https and ftp,
\* by "//" and a host.
IsUrl(b) ==
    /\ AbsoluteHref(b)
    /\ b[1] \in {"http:", "https:", "ftp:"} => Len(b) >= 3 /\ b[3] \notin {"/", "?", "#"}

\* A base with "//" and a host, which a reference can be joined onto.
Hierarchical(b) == IsUrl(b) /\ b[1] \in {"http:", "https:", "ftp:"}

\* Joins of standard URL combination: <<href, base, result>>.
JoinExamples ==
    {<<<<"page.html">>, HrefDir,
       <<"http:", "//", "example.com", "/", "dir", "/", "page.html">>>>,
     <<<<"page.html">>, HrefPage, HrefPage>>,
     <<<<"page.html">>, HrefBare, HrefPage>>,
     <<<<"/", "absolute", "/", "path">>, HrefSub,
       <<"http:", "//", "example.com", "/", "absolute", "/", "path">>>>,
     <<<<"..", "/", "sibling", "/", "page">>, HrefDir,
       <<"http:", "//", "example.com", "/", "sibling", "/", "page">>>>,
     <<<<"..">>, HrefSub, HrefDir>>,
     <<<<"?", "query=value">>, HrefPage,
       <<"http:", "//", "example.com", "/", "page.html", "?", "query=value">>>>,
     <<<<"#", "section">>, HrefQuery,
       <<"http:", "//", "example.com", "/", "page.html", "?", "q=1", "#", "section">>>>,
     <<<<"#", "section">>, HrefFragment,
       <<"http:", "//", "example.com", "/", "page.html", "#", "section">>>>}

\* C15: resolve_url(href, base) returns href unchanged when href carries a
\* recognized absolute scheme, whatever the base; otherwise it returns href
\* unchanged when there is no base or the base is not a URL; otherwise it
\* returns href joined onto base, as in the examples of a relative path, an
\* absolute path, a query, a fragment and "..", and the joined result is a URL
\* with the scheme and the host of the base; an href that cannot be joined
\* onto the base, the base having no host, is returned unchanged.
C15_ResolveUrlRules ==
    Done("resolve_url") =>
        LET href == call.args[1]
            base == call.args[2]
        IN CASE AbsoluteHref(href) -> call.result = href
             [] ~IsSome(base) -> call.result = href
             [] ~IsUrl(Unwrap(base)) -> call.result = href
             [] Url_join(Url_parse(Unwrap(base)).val, href).ok ->
                    /\ call.result =
                         Url_to_string(Url_join(Url_parse(Unwrap(base)).val, href).val)
                    /\ Hierarchical(Unwrap(base)) =>
                           SubSeq(call.result, 1, 3) = SubSeq(Unwrap(base), 1, 3)
                    /\ \A x \in JoinExamples :
                          (x[1] = href /\ x[2] = Unwrap(base)) => call.result = x[3]
             [] OTHER -> call.result = href

\* An href with an absolute scheme was resolved against a base it differs from
\* in form, and a ".." href was joined onto a base.
C15_Witness ==
    /\ Done("resolve_url")
    /\ \/ call.args = <<<<"..">>, Some(HrefSub)>> /\ call.result = HrefDir
       \/ call.args = <<HrefBare, Some(HrefDir)>> /\ call.result = HrefBare

\* The base without its fragment, and with the path "/" when it has none.
RECURSIVE Canonical(_)
Canonical(b) ==
    IF IndexOf(b, "#") <= Len(b) THEN Canonical(SubSeq(b, 1, IndexOf(b, "#") - 1))
    ELSE IF Len(b) = 3 \/ (Len(b) > 3 /\ b[4] = "?")
         THEN SubSeq(b, 1, 3) \o <<"/">> \o SubSeq(b, 4, Len(b))
         ELSE b

\* C16 (as stated): for every base b, resolve_url("", Some(b)) is b.
C16_EmptyHrefReturnsBase ==
    (Done("resolve_url") /\ call.args[1] = <<>> /\ IsSome(call.args[2]))
        => call.result = Unwrap(call.args[2])

\* C16 (amended): resolve_url("", Some(b)) is b without its fragment, and with
\* the path "/" when b has none, for a base b with a host; it is the empty
\* string for every other b.  So it is b itself exactly for the b with a
\* host, a path and no fragment.
C16_EmptyHrefReturnsCanonicalBase ==
    (Done("resolve_url") /\ call.args[1] = <<>> /\ IsSome(call.args[2])) =>
        LET b == Unwrap(call.args[2])
        IN /\ Hierarchical(b) => call.result = Canonical(b)
           /\ ~Hierarchical(b) => call.result = <<>>
           /\ call.result = b <=> (Hierarchical(b) /\ Canonical(b) = b)

\* The empty string was resolved against a base with a fragment.
C16_Witness ==
    /\ Done("resolve_url")
    /\ call.args = <<<<>>, Some(HrefFragment)>>
    /\ call.result = HrefPage

\* C17: combine_bases(parent, child) is Some(child resolved against parent)
\* when the child is present, so an absolute child overrides the parent and a
\* relative child is joined onto it; it is the parent when the child is
\* absent, and None when both are.
C17_CombineBases ==
    Done("combine_bases") =>
        LET parent == call.args[1]
            child_base == call.args[2]
        IN /\ IsSome(child_base) =>
                /\ call.result = Some(resolve_url(Unwrap(child_base), parent))
                /\ AbsoluteHref(Unwrap(child_base)) => call.result = child_base
                /\ (child_base = Some(<<"items", "/">>) /\ parent = Some(HrefDir)) =>
                       call.result = Some(HrefDir \o <<"items", "/">>)
           /\ ~IsSome(child_base) => call.result = parent

\* An absolute child has overridden a parent, or a relative one was joined.
C17_Witness ==
    /\ Done("combine_bases")
    /\ \/ call.args = <<Some(HrefDir), Some(HrefOther)>> /\ call.result = Some(HrefOther)
       \/ /\ call.args = <<Some(HrefDir), Some(<<"items", "/">>)>>
          /\ call.result = Some(HrefDir \o <<"items", "/">>)

\* C18: entering a nested scope leaves the contexts of the enclosing scopes as
\* they were; the context made by child() has the parent's base and the one
\* made by child_with_base(x) has combine_bases(parent base, Some(x)); leaving
\* the scope gives back the contexts there were, and resolve(href) is
\* resolve_url against the base of the innermost context.
C18_ChildLeavesParent ==
    /\ [][/\ call'.op \in {"child", "child_with_base"} =>
                /\ Len(ctxs') = Len(ctxs) + 1
                /\ SubSeq(ctxs', 1, Len(ctxs)) = ctxs
          /\ call'.op = "child" => Top(ctxs').base = Top(ctxs).base
          /\ call'.op = "child_with_base" =>
                Top(ctxs').base = combine_bases(Top(ctxs).base, Some(call'.xml_base))
          /\ call'.op = "leave" => ctxs = Append(ctxs', Top(ctxs))
          /\ call'.op = "resolve" => ctxs' = ctxs]_vars
    /\ [](call.op = "resolve" => call.result = resolve_url(call.href, Top(ctxs).base))

\* In a scope nested in a scope with another base, an href is resolved against
\* the base of the inner scope.
C18_Witness ==
    /\ Len(ctxs) = 2
    /\ ctxs[1].base = Some(HrefDir)
    /\ ctxs[2].base = Some(HrefDir \o <<"items", "/">>)
    /\ call.op = "resolve"
    /\ call.href = <<"page.html">>
    /\ call.result = HrefDir \o <<"items", "/", "page.html">>

----------------------------------------------------------------------------
\* Properties of parser/mod.rs and parser/detect.rs.

\* The first structural token of the document after the XML declaration.
Root(data) ==
    CASE data = <<>> -> ""
      [] Head(data) = "<?xml?>" /\ Len(data) >= 2 -> data[2]
      [] OTHER -> Head(data)

\* The title the document gives its feed.
DocTitle(data) ==
    LET i == Min(IndexOf(data, "<title>"), IndexOf(data, "title:"))
    IN IF i < Len(data) THEN Some(data[i + 1]) ELSE None

\* The number of items of the document.
DocItems(data) ==
    IF Root(data) = "{"
    THEN Cardinality({i \in (IndexOf(data, "items: [") + 1)..Len(data) : data[i] = "{"})
    ELSE Cardinality({i \in 1..Len(data) : data[i] = "<item>"})

\* C19: parse(data) detects the format and dispatches to its parser: for a
\* JSON Feed 1.1 document the result has version JsonFeed11, bozo false and the
\* document's title and items; for an RSS 2.0 document it has version Rss20
\* and the channel's title and items.
C19_ParseDispatches ==
    Done("parse") =>
        LET data == call.args[1]
            parsed == call.result.val
        IN /\ call.result.ok
           /\ Root(data) = "{" =>
                /\ parsed.version = "JsonFeed11"
                /\ ~parsed.bozo
                /\ parsed.feed.title = DocTitle(data)
                /\ Len(parsed.entries) = DocItems(data)
           /\ Root(data) = "<rss version=2.0>" =>
                /\ parsed.version = "Rss20"
                /\ parsed.feed.title = DocTitle(data)
                /\ Len(parsed.entries) = DocItems(data)

\* C20: detect_format(data) returns a version for every input: Rss20 for a
\* document whose root is <rss version="2.0">, Atom10 for an Atom feed root, a
\* JSON Feed version for a leading JSON structural token, and Unknown only
\* when the input has none of these, as empty and binary input.
C20_DetectFormatSniffs ==
    Done("detect_format") =>
        LET data == call.args[1]
        IN /\ call.result \in {"Rss20", "Atom10", "JsonFeed10", "JsonFeed11", "Unknown"}
           /\ Root(data) = "<rss version=2.0>" => call.result = "Rss20"
           /\ Root(data) = "<feed xmlns=atom>" => call.result = "Atom10"
           /\ Root(data) = "{" => call.result \in {"JsonFeed10", "JsonFeed11"}
           /\ call.result = "Unknown" =>
                Root(data) \notin {"<rss version=2.0>", "<feed xmlns=atom>", "{"}

----------------------------------------------------------------------------
\* Further properties of parser/rss.rs.

\* C21: every call of parse_rss20_with_limits returns: whatever events the
\* tokenizer delivers for a finite input, the loops of the top level and of
\* parse_channel, parse_item, parse_image, parse_source, read_text and
\* skip_element all exit, and the call returns Ok(ParsedFeed) or the size
\* error, the latter only for an input over max_feed_size_bytes.
C21_Terminates ==
    /\ <>(outcome \in {"Ok", "Err"} /\ stack = <<>>)
    /\ [](outcome = "Err" => data_len > limits.max_feed_size_bytes)

\* A call has returned Ok with the end of input met inside nested calls, after
\* a tokenizer error.
C21_Witness ==
    /\ outcome = "Ok"
    /\ stack = <<>>
    /\ reader.eof
    /\ reader.open # <<>>
    /\ doc.errors
    /\ doc.maxdepth >= 3

\* The scalar link and the list of links agree: when link is set, the first
\* of links is the alternate link with the same href.
LinkIsFirstAlternate(link, links) ==
    IsSome(link) =>
        /\ links # <<>>
        /\ links[1].rel = Some("alternate")
        /\ links[1].href = Unwrap(link)

\* C23: whenever feed.link or the link of a stored entry is set, links is
\* non-empty and links[0] has rel "alternate" and the href of that link field,
\* also when <link> occurs more than once.
C23_LinkIsFirstAlternate ==
    /\ LinkIsFirstAlternate(feed.feed.link, feed.feed.links)
    /\ \A i \in 1..Len(feed.entries) :
          LinkIsFirstAlternate(feed.entries[i].link, feed.entries[i].links)

\* The enclosures an <enclosure> of the documents considered is built into.
EnclosuresBuilt ==
    {Unwrap(Enclosure_from_attributes(a, limits.max_attribute_length)) :
        a \in {x \in Attrs("enclosure") :
                  IsSome(Enclosure_from_attributes(x, limits.max_attribute_length))}}

\* C24: parse_item builds the Enclosure of an <enclosure> from its attributes
\* and skips that element only: while the skip runs the reader is inside the
\* <enclosure>, for the tag written <enclosure .../> as for
\* <enclosure ...></enclosure>, so what follows it in the item is read by
\* parse_item.
C24_EnclosureSkippedAlone ==
    /\ []((Fn = "skip_element" /\ Top(stack).site = "enclosure") =>
              \E i \in 1..Len(reader.open) : reader.open[i] = "enclosure")
    /\ [][(/\ Fn = "parse_item"
           /\ hist'.last.name = "enclosure"
           /\ hist'.last.kind \in {"Start", "Empty"}
           /\ depth + 1 <= limits.max_nesting_depth) =>
              LET before == Top(stack).entry.enclosures
                  after == stack'[Len(stack)].entry.enclosures
              IN \/ after = before
                 \/ \E e \in EnclosuresBuilt : after = Append(before, e)]_vars

\* read_text runs for the arm of a child of <channel> or <item>.
ReadsScalar ==
    /\ Fn = "read_text"
    /\ stack[Len(stack) - 1].fn \in {"parse_channel", "parse_item"}

\* C28: a self-closing scalar child of <channel> or <item> has its arm run to
\* its end within the step that reads it: no call of read_text stays active
\* after the empty-element tag, and whenever read_text is active the reader is
\* inside the element whose text is read, so no event of a following sibling
\* is consumed for it.
C28_SelfClosingScalarAlone ==
    /\ [](ReadsScalar =>
              /\ reader.open # <<>>
              /\ Top(reader.open) = Top(stack).site)
    /\ [][(/\ Fn \in {"parse_channel", "parse_item"}
           /\ hist'.last.kind = "Empty"
           /\ hist'.last.name \in ScalarNames
           /\ depth + 1 <= limits.max_nesting_depth) => Fn' = Fn]_vars

\* C29: whatever a text arm of parse_channel stores as feed-level metadata is
\* the text of a direct child of <channel>: the element parse_channel called
\* read_text for, whose text the arm stores when read_text returns it, does
\* not lie inside an <item>, <image> or <source>.
C29_ChannelChildrenOnly ==
    [][(\E name \in ChannelTextNames : TextArm("parse_channel", name)) =>
           \A i \in 1..(Len(hist.channel_child) - 1) :
               hist.channel_child[i] \notin {"item", "image", "source"}]_vars

\* C30: within a call no step sets bozo back to false or clears bozo_exception.
C30_BozoMonotone ==
    [][/\ feed.bozo => feed'.bozo
       /\ IsSome(feed.bozo_exception) => IsSome(feed'.bozo_exception)]_vars

\* A call has returned with bozo set by an invalid date of the channel, after
\* the steps that stored an entry and left the channel.
C30_Witness ==
    /\ outcome = "Ok"
    /\ feed.bozo
    /\ feed.bozo_exception = Some("Invalid pubDate format")
    /\ Len(feed.entries) >= 1
    /\ reader.open = <<"rss">>

----------------------------------------------------------------------------
\* Properties of types/feed.rs.

\* C22: every ParsedFeed a caller obtains from ParsedFeed::new,
\* ParsedFeed::with_capacity, ParsedFeed::default or parse has a non-empty
\* encoding, "utf-8" as none is detected.
C22_EncodingNeverEmpty ==
    /\ (call.op \in {"ParsedFeed::new", "ParsedFeed::with_capacity",
                     "ParsedFeed::default"} /\ ~call.pending) =>
          call.result.encoding = "utf-8"
    /\ (Done("parse") /\ call.result.ok) => call.result.val.encoding = "utf-8"

----------------------------------------------------------------------------
\* Properties of the bindings and of the HTTP client.

\* C25: parse_with_options rejects, without calling the core, every input
\* longer than max_size (100 MB when max_size is omitted), rejects no input of
\* at most max_size bytes, and hands max_size to the core as
\* max_feed_size_bytes.
C25_NodeSizeCheck ==
    Done("parse_with_options") =>
        LET len == call.args[1].len
            max_size == IF IsSome(call.args[2]) THEN Unwrap(call.args[2])
                        ELSE 100 * 1024 * 1024
        IN /\ len > max_size => ~call.result.ok /\ call.result.core = None
           /\ len <= max_size => call.result.ok /\ call.result.core = Some(max_size)

\* An input of exactly max_size bytes was accepted and handed to the core.
C25_Witness ==
    /\ Done("parse_with_options")
    /\ call.args[1].len = 10
    /\ call.args[2] = Some(10)
    /\ call.result.ok
    /\ call.result.core = Some(10)

\* C26: a request sent by get after with_timeout(t) is bounded by t, not by
\* the default of 30 seconds, as a request sent after with_user_agent(a)
\* carries a as its User-Agent (unless extra_headers holds another).
C26_TimeoutApplied ==
    (Done("FeedHttpClient::get") /\ IsSome(call.result.sent)) =>
        LET request == Unwrap(call.result.sent)
            agent == call.args[2]
            timeout == call.args[3]
            extra_headers == call.args[7]
            replaced == IF IsSome(extra_headers)
                        THEN IsSome(Unwrap(extra_headers)["user-agent"])
                        ELSE FALSE
        IN /\ (IsSome(agent) /\ ~replaced) =>
                   request.headers["user-agent"] = Some(Unwrap(agent))
           /\ IsSome(timeout) => request.timeout = Unwrap(timeout)
           /\ ~IsSome(timeout) => request.timeout = 30

\* The size limit of a call of the Python parse_with_limits.
PySizeLimit == IF IsSome(call.args[2]) THEN Unwrap(call.args[2]) ELSE 100 * 1024 * 1024

\* The source is a str.
PyStr == call.args[1].type \in {"str", "str with a lone surrogate"}

\* The source is a str that starts as a URL.
PyUrl == PyStr /\ call.args[1].starts \in {"http://", "https://"}

\* What the Python parse_with_limits does with a source it takes as bytes.
PyParsesOrValueError ==
    /\ call.result.raises \in {"", "ValueError"}
    /\ call.result.raises = "ValueError" <=> call.args[1].len > PySizeLimit
    /\ call.result.raises = "" =>
          /\ IsSome(call.result.val)
          /\ Unwrap(call.result.val).bozo = call.args[1].malformed

\* C27: a source that is neither str nor bytes raises TypeError, a str that
\* starts with http:// or https:// raises NotImplementedError, and for every
\* other source the only exception is the ValueError of a feed over the limits,
\* malformed input being returned with bozo set.
C27_PyErrorsDecidedFirst ==
    Done("py_parse_with_limits") =>
        CASE ~PyStr /\ call.args[1].type # "bytes" -> call.result.raises = "TypeError"
          [] PyUrl -> call.result.raises = "NotImplementedError"
          [] OTHER -> PyParsesOrValueError

====
